---- MODULE Spec2Model ----
(***************************************************************************)
(* Parallel Conway's Game of Life (src/main.c, src/gol.c).                 *)
(*                                                                         *)
(* main() builds the world, run_threads() splits the rows into bands,      *)
(* creates num_threads workers that share one pthread barrier, joins them  *)
(* and returns; main() then prints the final world.  Every worker runs     *)
(* thread_function(): per turn  barrier ; (worker 0: copy + print) ;       *)
(* barrier ; update_world on its own band.                                 *)
(*                                                                         *)
(* Granularity: one step per barrier arrival, per barrier release, per     *)
(* copied cell, per print_world call and per update_cell call.             *)
(* Integers are C ints/unsigneds; every value of the model stays far below *)
(* 2^31, so no arithmetic here wraps.                                      *)
(***************************************************************************)
EXTENDS Integers, Sequences, FiniteSets, TLC

\* ------------------------------------------------------------------ bounds
MaxDim == 3      \* widths and heights explored: 1..MaxDim
MaxThreads == 3  \* worker counts explored: 1..MaxThreads
MaxTurns == 2    \* num_turns explored: 0..MaxTurns
MaxLive == 4     \* initial grids explored: at most MaxLive live cells
FairDim == 2     \* FairSpec: widths and heights explored: 1..FairDim
BlockDim == 4    \* SpecBlock: widths and heights explored: 4..BlockDim
MaxIndexDim == 4 \* SpecIndex: widths and heights explored: 1..MaxIndexDim
MaxCountDim == 3 \* SpecCount: widths and heights explored: 1..MaxCountDim (every grid)
MaxLoadDim == 2  \* SpecLoad, SpecStartup: rows and columns in the file: 1..MaxLoadDim
MaxPairs == 2    \* SpecLoad, SpecStartup: at most MaxPairs coordinate pairs in the file
GliderDim == 5   \* SpecGlider: the grid is GliderDim x GliderDim
MaxBandRows == 12     \* SpecBands: heights explored: 1..MaxBandRows
MaxBandThreads == 12  \* SpecBands: worker counts explored: 1..MaxBandThreads

\* ------------------------------------------------------------------ state
VARIABLES
    width, height,      \* main(): int width, height  (set by initialize_world)
    num_threads,        \* main(): -p option
    num_turns,          \* main(): -t option
    init_world,         \* the world initialize_world returned (history, never written)
    world,              \* int *world      : the live grid
    world_copy,         \* int *world_copy : the snapshot buffer
    td,                 \* ThreadData td[] : start_row / end_row of each worker
    mpc,                \* position of the main thread
    mi,                 \* run_threads(): loop variable i of the create / join loops
    pc,                 \* position of each worker
    turn_number,        \* thread_function(): turn_number of each worker
    copy_i,             \* thread_function(): i of the leader's copy loop
    ux, uy,             \* update_world(): x and y of each worker
    bcount, bcycle,     \* shared_barrier: arrived so far / episode parity
    mycycle,            \* episode parity a blocked worker saw on arrival
    rendered,           \* the print_world calls made so far: turn, grid, calling thread
    nwaits,             \* history: pthread_barrier_wait calls each worker has made
    ncopies,            \* history: completed runs of the leader's copy loop
    writers,            \* history: per cell, the workers that called update_cell on it
    config,             \* the content of the file named by -c, as fscanf will see it
    fault,              \* the pthread call whose failure made the process exit, or "none"
    probe               \* a direct call of a gol.c function: arguments and return value

vars == <<width, height, num_threads, num_turns, init_world, world, world_copy,
          td, mpc, mi, pc, turn_number, copy_i, ux, uy, bcount, bcycle,
          mycycle, rendered, nwaits, ncopies, writers, config, fault, probe>>

MainThread == -1   \* the caller of print_world at main.c 130 (workers are 0, 1, ...)

Uninit == 2   \* content of malloc'ed memory nobody has written yet (neither 0 nor 1)

Threads == 0 .. (num_threads - 1)
Cells == 0 .. (width * height - 1)

\* ------------------------------------------------------------------ gol.c
\* translate_to_1D clamping to the edge where it should wrap around.
translate_to_1D_clamped(col, row, num_cols, num_rows) ==
    LET c == IF col < 0 THEN 0
             ELSE IF col >= num_cols THEN num_cols - 1
             ELSE col
        r == IF row < 0 THEN 0
             ELSE IF row >= num_rows THEN num_rows - 1
             ELSE row
    IN  r * num_cols + c

\* translate_to_1D with  >  where it has  >= : col = num_cols and row = num_rows pass.
translate_to_1D_gt(col, row, num_cols, num_rows) ==
    LET c == IF col < 0 THEN col + num_cols
             ELSE IF col > num_cols THEN col - num_cols
             ELSE col
        r == IF row < 0 THEN row + num_rows
             ELSE IF row > num_rows THEN row - num_rows
             ELSE row
    IN  r * num_cols + c

translate_to_1D(col, row, num_cols, num_rows) ==
    LET c == IF col < 0 THEN col + num_cols
             ELSE IF col >= num_cols THEN col - num_cols
             ELSE col
        r == IF row < 0 THEN row + num_rows
             ELSE IF row >= num_rows THEN row - num_rows
             ELSE row
    IN  r * num_cols + c

\* count_live_neighbors without the  continue  for col == x && row == y.
count_live_neighbors_all_nine(w, x, y, num_cols, num_rows) ==
    Cardinality({ p \in ((x-1) .. (x+1)) \X ((y-1) .. (y+1)) :
                    w[translate_to_1D(p[1], p[2], num_cols, num_rows)] = 1 })

count_live_neighbors(w, x, y, num_cols, num_rows) ==
    Cardinality({ p \in ((x-1) .. (x+1)) \X ((y-1) .. (y+1)) :
                    /\ ~(p[1] = x /\ p[2] = y)
                    /\ w[translate_to_1D(p[1], p[2], num_cols, num_rows)] = 1 })

\* update_cell counting the neighbours in next_world, the grid being written.
update_cell_in_place(curr_world, next_world, x, y, num_cols, num_rows) ==
    LET index == translate_to_1D(x, y, num_cols, num_rows)
        num_live_neighbors == count_live_neighbors(next_world, x, y, num_cols, num_rows)
    IN  IF curr_world[index] = 1 /\ (num_live_neighbors < 2 \/ num_live_neighbors > 3)
        THEN [next_world EXCEPT ![index] = 0]
        ELSE IF num_live_neighbors = 3
        THEN [next_world EXCEPT ![index] = 1]
        ELSE next_world

\* update_cell with  > 3  written  >= 3 : a live cell with 3 live neighbours dies.
update_cell_crowded_at_3(curr_world, next_world, x, y, num_cols, num_rows) ==
    LET index == translate_to_1D(x, y, num_cols, num_rows)
        num_live_neighbors == count_live_neighbors(curr_world, x, y, num_cols, num_rows)
    IN  IF curr_world[index] = 1 /\ (num_live_neighbors < 2 \/ num_live_neighbors >= 3)
        THEN [next_world EXCEPT ![index] = 0]
        ELSE IF num_live_neighbors = 3
        THEN [next_world EXCEPT ![index] = 1]
        ELSE next_world

update_cell(curr_world, next_world, x, y, num_cols, num_rows) ==
    LET index == translate_to_1D(x, y, num_cols, num_rows)
        num_live_neighbors == count_live_neighbors(curr_world, x, y, num_cols, num_rows)
    IN  IF curr_world[index] = 1 /\ (num_live_neighbors < 2 \/ num_live_neighbors > 3)
        THEN [next_world EXCEPT ![index] = 0]
        ELSE IF num_live_neighbors = 3
        THEN [next_world EXCEPT ![index] = 1]
        ELSE next_world

\* update_world as one call: the y loop over the x loop, from position (x, y) on.
RECURSIVE update_world_from(_, _, _, _, _, _, _)
update_world_from(w, w_copy, num_cols, num_rows, x, y, end_row) ==
    IF y > end_row THEN w
    ELSE IF x >= num_cols
    THEN update_world_from(w, w_copy, num_cols, num_rows, 0, y + 1, end_row)
    ELSE update_world_from(update_cell(w_copy, w, x, y, num_cols, num_rows),
                           w_copy, num_cols, num_rows, x + 1, y, end_row)

update_world(w, w_copy, num_cols, num_rows, start_row, end_row) ==
    update_world_from(w, w_copy, num_cols, num_rows, 0, start_row, end_row)

\* ------------------------------------------------------------------ main.c: run_threads
\* The band loop of run_threads (lines 219-244): iteration i with the locals
\* cur and remainder, filling td[i].start_row / td[i].end_row.
\* band_loop with  cur = end  in place of  cur = end + 1: neighbouring bands share a row.
RECURSIVE band_loop_overlap(_, _, _, _, _, _)
band_loop_overlap(i, n, cur, remainder, rows_per_thread, acc) ==
    IF i >= n THEN acc
    ELSE LET start == cur
             end == IF remainder > 0 THEN cur + rows_per_thread
                                     ELSE cur + rows_per_thread - 1
         IN  band_loop_overlap(i + 1, n, IF end > 0 THEN end ELSE end + 1,
                       IF remainder > 0 THEN remainder - 1 ELSE remainder,
                       rows_per_thread,
                       acc @@ (i :> [id |-> i, start_row |-> start, end_row |-> end]))

\* band_loop without  remainder-- : every worker takes the larger band.
RECURSIVE band_loop_no_decrement(_, _, _, _, _, _)
band_loop_no_decrement(i, n, cur, remainder, rows_per_thread, acc) ==
    IF i >= n THEN acc
    ELSE LET start == cur
             end == IF remainder > 0 THEN cur + rows_per_thread
                                     ELSE cur + rows_per_thread - 1
         IN  band_loop_no_decrement(i + 1, n, end + 1, remainder, rows_per_thread,
                       acc @@ (i :> [id |-> i, start_row |-> start, end_row |-> end]))

\* band_loop whose else branch lacks the  - 1 : no band is ever empty.
RECURSIVE band_loop_no_minus(_, _, _, _, _, _)
band_loop_no_minus(i, n, cur, remainder, rows_per_thread, acc) ==
    IF i >= n THEN acc
    ELSE LET start == cur
             end == cur + rows_per_thread
         IN  band_loop_no_minus(i + 1, n, end + 1,
                       IF remainder > 0 THEN remainder - 1 ELSE remainder,
                       rows_per_thread,
                       acc @@ (i :> [id |-> i, start_row |-> start, end_row |-> end]))

RECURSIVE band_loop(_, _, _, _, _, _)
band_loop(i, n, cur, remainder, rows_per_thread, acc) ==
    IF i >= n THEN acc
    ELSE LET start == cur
             end == IF remainder > 0 THEN cur + rows_per_thread
                                     ELSE cur + rows_per_thread - 1
         IN  band_loop(i + 1, n, end + 1,
                       IF remainder > 0 THEN remainder - 1 ELSE remainder,
                       rows_per_thread,
                       acc @@ (i :> [id |-> i, start_row |-> start, end_row |-> end]))

make_bands(n, h) ==
    band_loop(0, n, 0, h % n, h \div n, <<>>)

\* ------------------------------------------------------------------ configuration file
\* The (col, row) pairs of the live cells of grid g, from cell `from` on, as a
\* configuration file lists them.
RECURSIVE LivePairs(_, _, _, _)
LivePairs(g, w, h, from) ==
    IF from >= w * h THEN <<>>
    ELSE IF g[from] = 1
    THEN <<[ok |-> TRUE, col |-> from % w, row |-> from \div w]>> \o LivePairs(g, w, h, from + 1)
    ELSE LivePairs(g, w, h, from + 1)

\* A readable, well-formed file that describes grid g: the number of rows, the
\* number of columns, then the pairs (header = how many of the three leading
\* numbers fscanf can read).
ConfigOf(g, w, h) ==
    [readable |-> TRUE, header |-> 3, rows |-> h, cols |-> w, pairs |-> LivePairs(g, w, h, 0)]

\* What fscanf("%u %u") makes of one line of the file: a pair of numbers, or
\* nothing (ok = FALSE: not two numbers, or the file ended early).
PairLines(colset, rowset) ==
    [ok : {TRUE}, col : colset, row : rowset] \cup {[ok |-> FALSE, col |-> 0, row |-> 0]}

\* The sequences of at most MaxPairs elements of S.
SeqsUpTo(S) == UNION { [1 .. n -> S] : n \in 0 .. MaxPairs }

\* initialize_world, lines 127-136: the pair loop from pair i on, on grid w.
\* A pair that cannot be read ends it with NULL.  An index outside the
\* calloc'ed array is a write out of bounds: oob records it and the grid is
\* left as it is.
RECURSIVE load_pairs(_, _, _, _, _, _)
load_pairs(pairs, i, w, oob, num_cols, num_rows) ==
    IF i > Len(pairs) THEN [null |-> FALSE, oob |-> oob, world |-> w]
    ELSE IF ~pairs[i].ok THEN [null |-> TRUE, oob |-> oob, world |-> <<>>]
    ELSE LET index == translate_to_1D(pairs[i].col, pairs[i].row, num_cols, num_rows)
         IN  IF index \in 0 .. (num_cols * num_rows - 1)
             THEN load_pairs(pairs, i + 1, [w EXCEPT ![index] = 1], oob, num_cols, num_rows)
             ELSE load_pairs(pairs, i + 1, w, TRUE, num_cols, num_rows)

\* initialize_world, lines 108-141.
initialize_world(cfg) ==
    IF ~cfg.readable \/ cfg.header < 3
    THEN [null |-> TRUE, oob |-> FALSE, world |-> <<>>]
    ELSE load_pairs(cfg.pairs, 1, [c \in 0 .. (cfg.cols * cfg.rows - 1) |-> 0], FALSE,
                    cfg.cols, cfg.rows)

\* No gol.c function is being called directly.
NoProbe == [fn |-> "none", col |-> 0, row |-> 0, returned |-> FALSE, ret |-> 0]

\* ------------------------------------------------------------------ initial states
\* The state when main() calls run_threads: initialize_world returned the grid g
\* of w columns and h rows; n and k are the -p and -t options.
InitWith(w, h, n, k, g) ==
    /\ width = w /\ height = h /\ num_threads = n /\ num_turns = k
    /\ init_world = g
    /\ world = g
    /\ world_copy = [c \in 0 .. (w * h - 1) |-> Uninit]
    /\ td = <<>>
    /\ mpc = "run_threads"
    /\ mi = 0
    /\ pc = [t \in 0 .. (n - 1) |-> "unborn"]
    /\ turn_number = [t \in 0 .. (n - 1) |-> 0]
    /\ copy_i = 0
    /\ ux = [t \in 0 .. (n - 1) |-> 0]
    /\ uy = [t \in 0 .. (n - 1) |-> 0]
    /\ bcount = 0 /\ bcycle = 0
    /\ mycycle = [t \in 0 .. (n - 1) |-> 0]
    /\ rendered = <<>>
    /\ nwaits = [t \in 0 .. (n - 1) |-> 0]
    /\ ncopies = 0
    /\ writers = [c \in 0 .. (w * h - 1) |-> {}]
    /\ config = ConfigOf(g, w, h)
    /\ fault = "none"
    /\ probe = NoProbe

\* A direct call of gol.c function fn with the coordinates (c, r) on grid g of
\* w columns and h rows, about to be made; no thread exists.
InitProbe(fn, c, r, w, h, g) ==
    /\ width = w /\ height = h /\ num_threads = 1 /\ num_turns = 0
    /\ init_world = g
    /\ world = g
    /\ world_copy = [i \in 0 .. (w * h - 1) |-> Uninit]
    /\ td = <<>>
    /\ mpc = "probe"
    /\ mi = 0
    /\ pc = [t \in {0} |-> "unborn"]
    /\ turn_number = [t \in {0} |-> 0]
    /\ copy_i = 0
    /\ ux = [t \in {0} |-> 0]
    /\ uy = [t \in {0} |-> 0]
    /\ bcount = 0 /\ bcycle = 0
    /\ mycycle = [t \in {0} |-> 0]
    /\ rendered = <<>>
    /\ nwaits = [t \in {0} |-> 0]
    /\ ncopies = 0
    /\ writers = [i \in 0 .. (w * h - 1) |-> {}]
    /\ config = ConfigOf(g, w, h)
    /\ fault = "none"
    /\ probe = [fn |-> fn, col |-> c, row |-> r, returned |-> FALSE, ret |-> 0]

\* main() about to call initialize_world on the file cfg: width, height and
\* world are not set yet, no thread exists.
InitBefore(cfg, n, k) ==
    /\ width = 0 /\ height = 0 /\ num_threads = n /\ num_turns = k
    /\ init_world = <<>>
    /\ world = <<>>
    /\ world_copy = <<>>
    /\ td = <<>>
    /\ mpc = "initialize_world"
    /\ mi = 0
    /\ pc = [t \in 0 .. (n - 1) |-> "unborn"]
    /\ turn_number = [t \in 0 .. (n - 1) |-> 0]
    /\ copy_i = 0
    /\ ux = [t \in 0 .. (n - 1) |-> 0]
    /\ uy = [t \in 0 .. (n - 1) |-> 0]
    /\ bcount = 0 /\ bcycle = 0
    /\ mycycle = [t \in 0 .. (n - 1) |-> 0]
    /\ rendered = <<>>
    /\ nwaits = [t \in 0 .. (n - 1) |-> 0]
    /\ ncopies = 0
    /\ writers = <<>>
    /\ config = cfg
    /\ fault = "none"
    /\ probe = NoProbe

\* Readable files with a complete header whose pairs can all be read, with
\* coordinates from one beyond a whole width / height below range to one
\* beyond a whole width / height above it.
InitLoad ==
    \E w \in 1 .. MaxLoadDim, h \in 1 .. MaxLoadDim :
        \E ps \in SeqsUpTo([ok : {TRUE}, col : (0 - w - 1) .. (2 * w),
                                          row : (0 - h - 1) .. (2 * h)]) :
            InitBefore([readable |-> TRUE, header |-> 3, rows |-> h, cols |-> w,
                        pairs |-> ps], 1, 0)

\* translate_to_1D called with coordinates up to one width / height out of range.
InitIndex ==
    \E w \in 1 .. MaxIndexDim, h \in 1 .. MaxIndexDim :
        \E c \in (0 - w) .. (2 * w - 1), r \in (0 - h) .. (2 * h - 1) :
            InitProbe("translate_to_1D", c, r, w, h, [i \in 0 .. (w * h - 1) |-> 0])

\* The grids of w columns and h rows with at most MaxLive live cells.
Grids(w, h) ==
    { g \in [0 .. (w * h - 1) -> {0, 1}] :
        Cardinality({c \in 0 .. (w * h - 1) : g[c] = 1}) <= MaxLive }

Init ==
    \E w \in 1 .. MaxDim, h \in 1 .. MaxDim, n \in 1 .. MaxThreads, k \in 0 .. MaxTurns :
        \E g \in Grids(w, h) : InitWith(w, h, n, k, g)

\* run_threads alone, on a wider range of heights and worker counts (the bands
\* depend on nothing else).
InitBands ==
    \E h \in 1 .. MaxBandRows, n \in 1 .. MaxBandThreads :
        InitWith(1, h, n, 0, [c \in 0 .. (h - 1) |-> 0])

\* The same runs on grids up to FairDim x FairDim, for the properties that need
\* the scheduler's fairness.
FairInit ==
    \E w \in 1 .. FairDim, h \in 1 .. FairDim, n \in 1 .. MaxThreads, k \in 0 .. MaxTurns :
        \E g \in Grids(w, h) : InitWith(w, h, n, k, g)

\* The grid of w columns and h rows whose only live cells are the 2x2 block
\* with top-left corner (bx, by), wrapping around the edges.
BlockGrid(w, h, bx, by) ==
    [c \in 0 .. (w * h - 1) |->
        IF (c % w) \in {bx, (bx + 1) % w} /\ (c \div w) \in {by, (by + 1) % h}
        THEN 1 ELSE 0]

\* The runs that start from a 2x2 block anywhere on a grid of at least 4x4.
InitBlock ==
    \E w \in 4 .. BlockDim, h \in 4 .. BlockDim, n \in 1 .. MaxThreads, k \in 0 .. MaxTurns :
        \E bx \in 0 .. (w - 1), by \in 0 .. (h - 1) :
            InitWith(w, h, n, k, BlockGrid(w, h, bx, by))

\* The grid of w columns and h rows whose only live cells are the 5 cells of
\* the glider  .@. / ..@ / @@@  with top-left corner (gx, gy), wrapping around.
GliderGrid(w, h, gx, gy) ==
    [c \in 0 .. (w * h - 1) |->
        IF <<((c % w) - gx) % w, ((c \div w) - gy) % h>>
              \in {<<1, 0>>, <<2, 1>>, <<0, 2>>, <<1, 2>>, <<2, 2>>}
        THEN 1 ELSE 0]

\* The runs of 4 turns that start from a glider anywhere on the grid.
InitGlider ==
    \E n \in 1 .. MaxThreads, gx \in 0 .. (GliderDim - 1), gy \in 0 .. (GliderDim - 1) :
        InitWith(GliderDim, GliderDim, n, 4, GliderGrid(GliderDim, GliderDim, gx, gy))

\* count_live_neighbors called on a cell of any grid of up to MaxCountDim x MaxCountDim.
InitCount ==
    \E w \in 1 .. MaxCountDim, h \in 1 .. MaxCountDim :
        \E c \in 0 .. (w - 1), r \in 0 .. (h - 1), g \in [0 .. (w * h - 1) -> {0, 1}] :
            InitProbe("count_live_neighbors", c, r, w, h, g)

\* ------------------------------------------------------------------ main thread
\* run_threads, lines 199-244: bands, world_copy = malloc, pthread_barrier_init.
RunThreadsSetup ==
    /\ mpc = "run_threads"
    /\ td' = make_bands(num_threads, height)
    /\ bcount' = 0 /\ bcycle' = 0
    /\ mi' = 0
    /\ mpc' = "create"
    /\ UNCHANGED <<config, probe, fault, width, height, num_threads, num_turns, init_world, world,
                   world_copy, pc, turn_number, copy_i, ux, uy, mycycle, nwaits,
                   rendered, ncopies, writers>>

\* run_threads, lines 246-251: one pthread_create.
CreateThread ==
    /\ mpc = "create"
    /\ pc' = [pc EXCEPT ![mi] = "loop"]
    /\ IF mi + 1 < num_threads
       THEN mi' = mi + 1 /\ mpc' = mpc
       ELSE mi' = 0 /\ mpc' = "join"
    /\ UNCHANGED <<config, probe, fault, width, height, num_threads, num_turns, init_world, world,
                   world_copy, td, turn_number, copy_i, ux, uy, bcount, bcycle,
                   mycycle, nwaits, rendered, ncopies, writers>>

\* run_threads, lines 253-258: one pthread_join, which blocks until the worker returned.
JoinThread ==
    /\ mpc = "join"
    /\ pc[mi] = "done"
    /\ IF mi + 1 < num_threads
       THEN mi' = mi + 1 /\ mpc' = mpc
       ELSE mi' = 0 /\ mpc' = "cleanup"
    /\ UNCHANGED <<config, probe, fault, width, height, num_threads, num_turns, init_world, world,
                   world_copy, td, pc, turn_number, copy_i, ux, uy, bcount, bcycle,
                   mycycle, nwaits, rendered, ncopies, writers>>

\* run_threads, lines 260-268: pthread_barrier_destroy, the frees, return to main.
RunThreadsReturn ==
    /\ mpc = "cleanup"
    /\ mpc' = "final_print"
    /\ UNCHANGED <<config, probe, fault, width, height, num_threads, num_turns, init_world, world,
                   world_copy, td, mi, pc, turn_number, copy_i, ux, uy, bcount,
                   bcycle, mycycle, nwaits, rendered, ncopies, writers>>

\* main, line 130: print_world(world, width, height, num_turns).
FinalPrint ==
    /\ mpc = "final_print"
    /\ rendered' = Append(rendered, [turn |-> num_turns, grid |-> world, by |-> MainThread])
    /\ mpc' = "done"
    /\ UNCHANGED <<config, probe, fault, width, height, num_threads, num_turns, init_world, world,
                   world_copy, td, mi, pc, turn_number, copy_i, ux, uy, bcount,
                   bcycle, mycycle, nwaits, ncopies, writers>>

MainStep ==
    \/ RunThreadsSetup
    \/ CreateThread
    \/ JoinThread
    \/ RunThreadsReturn
    \/ FinalPrint

\* ------------------------------------------------------------------ pthread barrier
\* pthread_barrier_wait called by worker t: the last of num_threads arrivals
\* opens the barrier (a new episode starts) and goes on to `passed`; any other
\* arrival blocks at `blocked` until the episode it arrived in is over.
\* A barrier initialised with num_threads - 1 in place of num_threads.
barrier_wait_one_short(t, blocked, passed) ==
    /\ nwaits' = [nwaits EXCEPT ![t] = @ + 1]
    /\ IF bcount + 1 >= num_threads - 1
       THEN /\ bcount' = 0
            /\ bcycle' = 1 - bcycle
            /\ pc' = [pc EXCEPT ![t] = passed]
            /\ UNCHANGED mycycle
       ELSE /\ bcount' = bcount + 1
            /\ mycycle' = [mycycle EXCEPT ![t] = bcycle]
            /\ pc' = [pc EXCEPT ![t] = blocked]
            /\ UNCHANGED bcycle

barrier_wait(t, blocked, passed) ==
    /\ nwaits' = [nwaits EXCEPT ![t] = @ + 1]
    /\ IF bcount + 1 = num_threads
       THEN /\ bcount' = 0
            /\ bcycle' = 1 - bcycle
            /\ pc' = [pc EXCEPT ![t] = passed]
            /\ UNCHANGED mycycle
       ELSE /\ bcount' = bcount + 1
            /\ mycycle' = [mycycle EXCEPT ![t] = bcycle]
            /\ pc' = [pc EXCEPT ![t] = blocked]
            /\ UNCHANGED bcycle

\* A blocked pthread_barrier_wait returns once its episode is over (mycycle is
\* local to the call: it is cleared on return).
barrier_released(t) == bcycle # mycycle[t]

\* ------------------------------------------------------------------ main.c: thread_function
\* Where a worker goes after the first barrier of a turn (line 165).
\* Every worker taking the leader's branch after the first barrier.
after_first_barrier_all(t) == "copy"

\* A leader that copies the live grid in the first turn only.
after_first_barrier_copy_once(t) ==
    IF td[t].id = 0 THEN (IF turn_number[t] = 0 THEN "copy" ELSE "print") ELSE "barB"

after_first_barrier(t) == IF td[t].id = 0 THEN "copy" ELSE "barB"

\* Line 156: the test turn_number < num_turns; line 182: return NULL.
LoopTest(t) ==
    /\ pc[t] = "loop"
    /\ pc' = [pc EXCEPT ![t] = IF turn_number[t] < num_turns THEN "barA" ELSE "done"]
    /\ UNCHANGED <<config, probe, fault, width, height, num_threads, num_turns, init_world, world,
                   world_copy, td, mpc, mi, turn_number, copy_i, ux, uy, bcount,
                   bcycle, mycycle, nwaits, rendered, ncopies, writers>>

\* thread_function without its first pthread_barrier_wait.
FirstBarrierSkipped(t) ==
    /\ pc[t] = "barA"
    /\ pc' = [pc EXCEPT ![t] = after_first_barrier(t)]
    /\ UNCHANGED <<config, probe, fault, width, height, num_threads, num_turns, init_world, world,
                   world_copy, td, mpc, mi, turn_number, copy_i, ux, uy, bcount,
                   bcycle, mycycle, nwaits, rendered, ncopies, writers>>

\* Lines 158-162: the first pthread_barrier_wait of the turn.
FirstBarrier(t) ==
    /\ pc[t] = "barA"
    /\ barrier_wait(t, "barA_blocked", after_first_barrier(t))
    /\ UNCHANGED <<config, probe, fault, width, height, num_threads, num_turns, init_world, world,
                   world_copy, td, mpc, mi, turn_number, copy_i, ux, uy, rendered, ncopies, writers>>

FirstBarrierReturn(t) ==
    /\ pc[t] = "barA_blocked"
    /\ barrier_released(t)
    /\ pc' = [pc EXCEPT ![t] = after_first_barrier(t)]
    /\ mycycle' = [mycycle EXCEPT ![t] = 0]
    /\ UNCHANGED <<config, probe, fault, width, height, num_threads, num_turns, init_world, world,
                   world_copy, td, mpc, mi, turn_number, copy_i, ux, uy, bcount,
                   bcycle, nwaits, rendered, ncopies, writers>>

\* The copy loop with the bound  i < width*height - 1 : the last cell is never copied.
CopyCellShort(t) ==
    /\ pc[t] = "copy"
    /\ world_copy' = IF copy_i < width * height - 1
                     THEN [world_copy EXCEPT ![copy_i] = world[copy_i]]
                     ELSE world_copy
    /\ IF copy_i + 1 < width * height - 1
       THEN copy_i' = copy_i + 1 /\ pc' = pc /\ ncopies' = ncopies
       ELSE copy_i' = 0 /\ pc' = [pc EXCEPT ![t] = "print"] /\ ncopies' = ncopies + 1
    /\ UNCHANGED <<config, probe, fault, width, height, num_threads, num_turns, init_world, world,
                   td, mpc, mi, turn_number, ux, uy, bcount, bcycle, mycycle,
                   nwaits, rendered, writers>>

\* Lines 166-168: one iteration of the leader's copy loop.
CopyCell(t) ==
    /\ pc[t] = "copy"
    /\ world_copy' = [world_copy EXCEPT ![copy_i] = world[copy_i]]
    /\ IF copy_i + 1 < width * height
       THEN copy_i' = copy_i + 1 /\ pc' = pc /\ ncopies' = ncopies
       ELSE copy_i' = 0 /\ pc' = [pc EXCEPT ![t] = "print"] /\ ncopies' = ncopies + 1
    /\ UNCHANGED <<config, probe, fault, width, height, num_threads, num_turns, init_world, world,
                   td, mpc, mi, turn_number, ux, uy, bcount, bcycle, mycycle,
                   nwaits, rendered, writers>>

\* The leader going from print_world straight to update_world, its second
\* pthread_barrier_wait left inside the non-leader path.
PrintTurnThenUpdate(t) ==
    /\ pc[t] = "print"
    /\ rendered' = Append(rendered, [turn |-> turn_number[t], grid |-> world, by |-> td[t].id])
    /\ pc' = [pc EXCEPT ![t] = "update"]
    /\ uy' = [uy EXCEPT ![t] = td[t].start_row]
    /\ UNCHANGED <<config, probe, fault, width, height, num_threads, num_turns, init_world, world,
                   world_copy, td, mpc, mi, turn_number, copy_i, ux, bcount,
                   bcycle, mycycle, nwaits, ncopies, writers>>

\* print_world called with turn_number + 1.
PrintTurnOneBased(t) ==
    /\ pc[t] = "print"
    /\ rendered' = Append(rendered, [turn |-> turn_number[t] + 1, grid |-> world, by |-> td[t].id])
    /\ pc' = [pc EXCEPT ![t] = "barB"]
    /\ UNCHANGED <<config, probe, fault, width, height, num_threads, num_turns, init_world, world,
                   world_copy, td, mpc, mi, turn_number, copy_i, ux, uy, bcount,
                   bcycle, mycycle, nwaits, ncopies, writers>>

\* Lines 169-170: print_world(world, ..., turn_number), then the delay.
PrintTurn(t) ==
    /\ pc[t] = "print"
    /\ rendered' = Append(rendered, [turn |-> turn_number[t], grid |-> world, by |-> td[t].id])
    /\ pc' = [pc EXCEPT ![t] = "barB"]
    /\ UNCHANGED <<config, probe, fault, width, height, num_threads, num_turns, init_world, world,
                   world_copy, td, mpc, mi, turn_number, copy_i, ux, uy, bcount,
                   bcycle, mycycle, nwaits, ncopies, writers>>

\* thread_function without its second pthread_barrier_wait.
SecondBarrierSkipped(t) ==
    /\ pc[t] = "barB"
    /\ pc' = [pc EXCEPT ![t] = "update"]
    /\ uy' = [uy EXCEPT ![t] = td[t].start_row]
    /\ UNCHANGED <<config, probe, fault, width, height, num_threads, num_turns, init_world, world,
                   world_copy, td, mpc, mi, turn_number, copy_i, ux, bcount,
                   bcycle, mycycle, nwaits, rendered, ncopies, writers>>

\* Lines 173-177: the second pthread_barrier_wait of the turn; past it the
\* worker calls update_world (line 179), whose y loop starts at start_row.
SecondBarrier(t) ==
    /\ pc[t] = "barB"
    /\ barrier_wait(t, "barB_blocked", "update")
    /\ uy' = IF pc'[t] = "update" THEN [uy EXCEPT ![t] = td[t].start_row] ELSE uy
    /\ UNCHANGED <<config, probe, fault, width, height, num_threads, num_turns, init_world, world,
                   world_copy, td, mpc, mi, turn_number, copy_i, ux, rendered, ncopies, writers>>

SecondBarrierReturn(t) ==
    /\ pc[t] = "barB_blocked"
    /\ barrier_released(t)
    /\ pc' = [pc EXCEPT ![t] = "update"]
    /\ uy' = [uy EXCEPT ![t] = td[t].start_row]
    /\ mycycle' = [mycycle EXCEPT ![t] = 0]
    /\ UNCHANGED <<config, probe, fault, width, height, num_threads, num_turns, init_world, world,
                   world_copy, td, mpc, mi, turn_number, copy_i, ux, bcount,
                   bcycle, nwaits, rendered, ncopies, writers>>

\* update_world storing each new cell value into the snapshot as well.
UpdateStepWritesSnapshot(t) ==
    /\ pc[t] = "update"
    /\ IF uy[t] > td[t].end_row
       THEN /\ turn_number' = [turn_number EXCEPT ![t] = @ + 1]
            /\ pc' = [pc EXCEPT ![t] = "loop"]
            /\ ux' = [ux EXCEPT ![t] = 0]
            /\ uy' = [uy EXCEPT ![t] = 0]
            /\ UNCHANGED <<world, world_copy, writers>>
       ELSE /\ world' = update_cell(world_copy, world, ux[t], uy[t], width, height)
            /\ world_copy' = update_cell(world_copy, world_copy, ux[t], uy[t], width, height)
            /\ writers' = [writers EXCEPT
                              ![translate_to_1D(ux[t], uy[t], width, height)] = @ \cup {t}]
            /\ IF ux[t] + 1 < width
               THEN ux' = [ux EXCEPT ![t] = @ + 1] /\ uy' = uy
               ELSE ux' = [ux EXCEPT ![t] = 0] /\ uy' = [uy EXCEPT ![t] = @ + 1]
            /\ UNCHANGED <<turn_number, pc>>
    /\ UNCHANGED <<config, probe, fault, width, height, num_threads, num_turns, init_world,
                   td, mpc, mi, copy_i, bcount, bcycle, mycycle,
                   nwaits, rendered, ncopies>>

\* update_world (gol.c 143-152) called at main.c 179, one update_cell per step;
\* when the y loop is over the worker is at the end of the turn (turn_number++).
UpdateStep(t) ==
    /\ pc[t] = "update"
    /\ IF uy[t] > td[t].end_row
       THEN /\ turn_number' = [turn_number EXCEPT ![t] = @ + 1]
            /\ pc' = [pc EXCEPT ![t] = "loop"]
            /\ ux' = [ux EXCEPT ![t] = 0]
            /\ uy' = [uy EXCEPT ![t] = 0]
            /\ UNCHANGED <<world, writers>>
       ELSE /\ world' = update_cell(world_copy, world, ux[t], uy[t], width, height)
            /\ writers' = [writers EXCEPT
                              ![translate_to_1D(ux[t], uy[t], width, height)] = @ \cup {t}]
            /\ IF ux[t] + 1 < width
               THEN ux' = [ux EXCEPT ![t] = @ + 1] /\ uy' = uy
               ELSE ux' = [ux EXCEPT ![t] = 0] /\ uy' = [uy EXCEPT ![t] = @ + 1]
            /\ UNCHANGED <<turn_number, pc>>
    /\ UNCHANGED <<config, probe, fault, width, height, num_threads, num_turns, init_world,
                   world_copy, td, mpc, mi, copy_i, bcount, bcycle, mycycle,
                   nwaits, rendered, ncopies>>

WorkerStep(t) ==
    \/ LoopTest(t)
    \/ FirstBarrier(t)
    \/ FirstBarrierReturn(t)
    \/ CopyCell(t)
    \/ PrintTurn(t)
    \/ SecondBarrier(t)
    \/ SecondBarrierReturn(t)
    \/ UpdateStep(t)

Next == MainStep \/ \E t \in Threads : WorkerStep(t)

Spec == Init /\ [][Next]_vars

\* ================================================================== properties

\* The cell indices update_world may write for worker t: every column of the
\* rows start_row .. end_row of its band.
WriteSet(t) ==
    { translate_to_1D(x, y, width, height) :
        x \in 0 .. (width - 1), y \in td[t].start_row .. td[t].end_row }

BandsAssigned == mpc # "run_threads"

\* C1: no live-grid cell index is written by two different workers: the sets of
\* indices update_world may write for the workers are pairwise disjoint, every
\* update_cell call of a worker is on an index of its own set, and no cell has
\* had update_cell called on it by two different workers.
C1_DisjointWrites ==
    BandsAssigned =>
        /\ \A t \in Threads, u \in Threads :
              t # u => WriteSet(t) \cap WriteSet(u) = {}
        /\ \A c \in Cells : Cardinality(writers[c]) <= 1
        /\ \A c \in Cells : \A t \in writers[c] : c \in WriteSet(t)

\* Two workers are inside update_world at once and each has processed a cell.
C1_Witness ==
    \E t \in Threads, u \in Threads :
        /\ t # u
        /\ pc[t] = "update" /\ pc[u] = "update"
        /\ \E c \in Cells : writers[c] = {t}
        /\ \E c \in Cells : writers[c] = {u}

\* C2: no worker is inside update_world (reading world_copy) of generation g
\* before the leader has finished its copy loop for generation g: the leader is
\* never inside its copy loop while a worker is inside update_world, and a
\* worker inside update_world of its turn g finds exactly g+1 completed copies
\* and no cell of world_copy still unwritten.
C2_CopyBeforeRead ==
    \A t \in Threads :
        pc[t] = "update" =>
            /\ pc[0] # "copy"
            /\ ncopies = turn_number[t] + 1
            /\ \A c \in Cells : world_copy[c] # Uninit

\* A non-leader worker is inside update_world of its second turn.
C2_Witness ==
    \E t \in Threads :
        t # 0 /\ pc[t] = "update" /\ turn_number[t] = 1 /\ uy[t] <= td[t].end_row

\* C3: the leader copies and prints the live grid of generation g+1 only after
\* every worker has finished update_world of generation g: while the leader is
\* in its copy loop or at print_world, no worker is inside update_world and every
\* worker has completed exactly as many turns as the leader.
C3_WritesBeforeCopy ==
    pc[0] \in {"copy", "print"} =>
        \A t \in Threads :
            /\ pc[t] # "update"
            /\ turn_number[t] = turn_number[0]
            /\ t # 0 => pc[t] \in {"barA_blocked", "barB", "barB_blocked"}

\* The leader is inside its copy loop of the second turn, with other workers around.
C3_Witness ==
    /\ num_threads > 1
    /\ pc[0] = "copy" /\ copy_i > 0 /\ turn_number[0] = 1
    /\ world # init_world

\* ------------------------------------------------------------------ reference runs
\* One turn of thread_function for the workers of `bands`, scheduled one after
\* the other: the leader's copy, then update_world of worker i, i+1, ...
RECURSIVE turn_in_order(_, _, _, _, _, _)
turn_in_order(w, w_copy, num_cols, num_rows, bands, i) ==
    IF i \notin DOMAIN bands THEN w
    ELSE turn_in_order(update_world(w, w_copy, num_cols, num_rows,
                                    bands[i].start_row, bands[i].end_row),
                       w_copy, num_cols, num_rows, bands, i + 1)

\* k turns of a run with n workers in that schedule; with n = 1 it is the only
\* schedule there is.
RECURSIVE run_in_order(_, _, _, _, _)
run_in_order(w, k, n, num_cols, num_rows) ==
    IF k = 0 THEN w
    ELSE run_in_order(turn_in_order(w, w, num_cols, num_rows, make_bands(n, num_rows), 0),
                      k - 1, n, num_cols, num_rows)

\* C4: the final live grid of a run with any number of workers, under every
\* interleaving, is cell for cell the final live grid of the run with 1 worker
\* on the same initial grid and num_turns.
C4_SameAsOneWorker ==
    mpc = "done" => world = run_in_order(init_world, num_turns, 1, width, height)

\* A run of 3 workers over 2 turns is over, and each turn changed the grid.
C4_Witness ==
    /\ mpc = "done" /\ num_threads = 3 /\ num_turns = 2 /\ height = 3
    /\ world # init_world
    /\ world # run_in_order(init_world, 1, 1, width, height)

\* ------------------------------------------------------------------ the rule, as specified
\* B3/S23 on the previous state of a cell and its live-neighbour count n.
Rule(state, n) ==
    IF state = 1 THEN (IF n < 2 \/ n > 3 THEN 0 ELSE 1)
                 ELSE (IF n = 3 THEN 1 ELSE 0)

\* Live cells among the 8 toroidal Moore neighbours of (x, y) in grid g.
MooreCount(g, x, y) ==
    Cardinality({ d \in {-1, 0, 1} \X {-1, 0, 1} :
                    /\ d # <<0, 0>>
                    /\ g[((y + d[2]) % height) * width + ((x + d[1]) % width)] = 1 })

\* One generation of the automaton on grid g.
LifeStep(g) ==
    [c \in Cells |-> Rule(g[c], MooreCount(g, c % width, c \div width))]

RECURSIVE Generations(_, _)
Generations(g, n) == IF n = 0 THEN g ELSE Generations(LifeStep(g), n - 1)

\* Every worker is between two turns, none ahead of another: the computing
\* phase of generation turn_number[0] - 1 is over and the next has not begun.
GenerationOver ==
    /\ BandsAssigned
    /\ \A t \in Threads :
          /\ pc[t] \in {"loop", "barA", "barA_blocked", "done"}
          /\ turn_number[t] = turn_number[0]
    /\ turn_number[0] >= 1

\* C5: once all workers have finished the computing phase of a generation, every
\* live-grid cell holds the B3/S23 rule applied to that cell's snapshot value
\* and its toroidal Moore-neighbour live count in the snapshot.
C5_RuleApplied ==
    GenerationOver => world = LifeStep(world_copy)

\* The second generation is over, computed by several workers: cells born or
\* surviving in the first generation died in the second.
C5_Witness ==
    /\ GenerationOver /\ turn_number[0] = 2 /\ num_threads > 1
    /\ \E c \in Cells : init_world[c] = 0 /\ world_copy[c] = 1 /\ world[c] = 0
    /\ \E c \in Cells : init_world[c] = 1 /\ world_copy[c] = 1 /\ world[c] = 0

\* ------------------------------------------------------------------ bands
SpecBands == InitBands /\ [][RunThreadsSetup]_vars

BandSize(t) == td[t].end_row - td[t].start_row + 1

\* C6: the bands cover every row of 0 .. height-1 exactly once, are assigned in
\* increasing row order without gaps, and worker t gets (H div T) + 1 rows if
\* t < H mod T and (H div T) rows otherwise, so sizes differ by at most 1.
C6_BandsPartitionRows ==
    BandsAssigned =>
        /\ DOMAIN td = Threads
        /\ \A r \in 0 .. (height - 1) :
              Cardinality({t \in Threads : td[t].start_row <= r /\ r <= td[t].end_row}) = 1
        /\ \A t \in Threads :
              /\ td[t].start_row >= 0 /\ td[t].end_row <= height - 1
              /\ t > 0 => td[t].start_row = td[t - 1].end_row + 1
              /\ BandSize(t) = IF t < height % num_threads
                               THEN (height \div num_threads) + 1
                               ELSE height \div num_threads
        /\ td[0].start_row = 0
        /\ \A t \in Threads, u \in Threads : BandSize(t) - BandSize(u) <= 1

\* Bands of two different sizes were assigned to more than two workers.
C6_Witness ==
    /\ BandsAssigned
    /\ num_threads > 2 /\ height > num_threads /\ height % num_threads > 1
    /\ BandSize(0) = BandSize(num_threads - 1) + 1

\* ------------------------------------------------------------------ fair scheduling
\* The OS scheduler lets every thread that can take a step take one eventually:
\* the main thread and each worker are weakly fair.
FairSpec ==
    /\ FairInit /\ [][Next]_vars
    /\ WF_vars(MainStep)
    /\ \A t \in 0 .. (MaxThreads - 1) : WF_vars(t \in Threads /\ WorkerStep(t))

C7_Safe ==
    /\ (BandsAssigned /\ num_threads > height) =>
          \A t \in Threads :
              t >= height =>
                  /\ td[t].start_row > td[t].end_row
                  /\ \A c \in Cells : t \notin writers[c]
                  /\ pc[t] = "done" => nwaits[t] = 2 * num_turns
    /\ (mpc = "done" /\ num_threads >= height) =>
          world = run_in_order(init_world, num_turns, height, width, height)

\* C7: with more workers than rows, workers height .. num_threads-1 get empty
\* bands (start_row > end_row), never call update_cell, still make both barrier
\* waits of every turn, the run completes, and the final grid is that of the
\* run with num_threads = height (which itself ends in that same grid).
C7_MoreWorkersThanRows ==
    /\ []C7_Safe
    /\ (num_threads > height) ~> (mpc = "done")

\* A run of 3 workers on 2 rows over 2 turns is over and changed the grid.
C7_Witness ==
    /\ mpc = "done" /\ num_threads = 3 /\ height = 2 /\ num_turns = 2
    /\ nwaits[2] = 4
    /\ world # init_world

C8_Safe ==
    mpc \in {"final_print", "done"} =>
        \A t \in Threads :
            /\ pc[t] = "done"
            /\ nwaits[t] = 2 * num_turns
            /\ turn_number[t] = num_turns

\* C8: under fair scheduling the run always completes: run_threads returns only
\* after every worker has terminated, having made exactly 2*num_turns barrier
\* waits and computed exactly num_turns generations, and it does return.
C8_RunCompletes ==
    /\ []C8_Safe
    /\ <>(mpc = "done")

\* A run of 3 workers over 2 turns is over.
C8_Witness ==
    /\ mpc = "done" /\ num_threads = 3 /\ num_turns = 2
    /\ \A t \in Threads : pc[t] = "done" /\ nwaits[t] = 4

\* ------------------------------------------------------------------ renderer
\* C9: print_world is called num_turns + 1 times: by the leader once per turn
\* with the numbers 0, 1, ..., num_turns - 1 in this order, then once by main
\* with num_turns after all workers are joined; the call with number g shows
\* the initial grid after exactly g generations.
C9_RenderedTurns ==
    /\ Len(rendered) <= num_turns + 1
    /\ \A i \in 1 .. Len(rendered) :
          /\ rendered[i].turn = i - 1
          /\ rendered[i].grid = Generations(init_world, i - 1)
          /\ rendered[i].by = IF i <= num_turns THEN 0 ELSE MainThread
    /\ (BandsAssigned /\ mpc # "done") =>
          Len(rendered) = turn_number[0]
                          + (IF pc[0] \in {"barB", "barB_blocked", "update"} THEN 1 ELSE 0)
    /\ Len(rendered) = num_turns + 1 <=>  mpc = "done"
    /\ mpc = "done" => \A t \in Threads : pc[t] = "done"

\* The run is over after 2 turns of several workers; the three grids shown differ.
C9_Witness ==
    /\ mpc = "done" /\ num_turns = 2 /\ num_threads > 1
    /\ Len(rendered) = 3
    /\ rendered[1].grid # rendered[2].grid
    /\ rendered[2].grid # rendered[3].grid
    /\ rendered[1].grid # rendered[3].grid

\* ------------------------------------------------------------------ still life
SpecBlock == InitBlock /\ [][Next]_vars

\* The initial grid is at least 4x4 and holds exactly one 2x2 block.
IsBlockWorld ==
    /\ width >= 4 /\ height >= 4
    /\ \E bx \in 0 .. (width - 1), by \in 0 .. (height - 1) :
          init_world = BlockGrid(width, height, bx, by)

\* C10: a 2x2 block alone on a toroidal grid of at least 4x4 is unchanged after
\* every generation, for every worker count and placement: the live grid is the
\* initial grid whenever a generation is over, and so is every grid rendered.
C10_BlockIsStill ==
    IsBlockWorld =>
        /\ GenerationOver => world = init_world
        /\ mpc = "done" => world = init_world
        /\ \A i \in 1 .. Len(rendered) : rendered[i].grid = init_world

\* Two generations by 3 workers are over on a block that straddles both edges.
C10_Witness ==
    /\ IsBlockWorld
    /\ init_world[0] = 1 /\ init_world[width * height - 1] = 1
    /\ GenerationOver /\ turn_number[0] = 2 /\ num_threads = 3
    /\ \A t \in Threads : \E c \in Cells : t \in writers[c]

\* ------------------------------------------------------------------ glider
SpecGlider == InitGlider /\ [][Next]_vars

\* The initial grid holds exactly one glider, with top-left corner (gx, gy).
IsGliderWorldAt(gx, gy) == init_world = GliderGrid(width, height, gx, gy)

\* C11: on a toroidal grid seeded with only a 5-cell glider, once exactly 4
\* generations are over the live cells are the glider moved by one column and
\* one row (with wraparound), for every worker count; the 5th print_world call
\* shows it.
C11_GliderMoves ==
    ((GenerationOver /\ turn_number[0] = 4) \/ Len(rendered) >= 5) =>
        \A gx \in 0 .. (width - 1), gy \in 0 .. (height - 1) :
            IsGliderWorldAt(gx, gy) =>
                LET moved == GliderGrid(width, height, (gx + 1) % width, (gy + 1) % height)
                IN  /\ (GenerationOver /\ turn_number[0] = 4) => world = moved
                    /\ Len(rendered) >= 5 => rendered[5].grid = moved

\* Four generations by 3 workers are over on a glider that started across both edges.
C11_Witness ==
    /\ IsGliderWorldAt(width - 2, height - 2)
    /\ GenerationOver /\ turn_number[0] = 4 /\ num_threads = 3
    /\ \A t \in Threads : \E c \in Cells : t \in writers[c]
    /\ world # init_world

\* ------------------------------------------------------------------ direct calls
\* The frame of a direct call: only probe changes.
ProbeFrame ==
    UNCHANGED <<width, height, num_threads, num_turns, init_world, world, world_copy,
                td, mpc, mi, pc, turn_number, copy_i, ux, uy, bcount, bcycle,
                mycycle, rendered, nwaits, ncopies, writers, config, fault>>

\* translate_to_1D(col, row, width, height) is called and returns.
CallTranslate ==
    /\ probe.fn = "translate_to_1D" /\ ~probe.returned
    /\ probe' = [probe EXCEPT !.returned = TRUE,
                              !.ret = translate_to_1D(probe.col, probe.row, width, height)]
    /\ ProbeFrame

SpecIndex == InitIndex /\ [][CallTranslate]_vars

\* C12: for col in [-W, 2W-1] and row in [-H, 2H-1], translate_to_1D returns
\* (row mod H)*W + (col mod W), a value in [0, W*H); in particular
\* index(-1,0) = index(W-1,0) and index(W,0) = index(0,0).
C12_IndexWraps ==
    /\ (probe.fn = "translate_to_1D" /\ probe.returned) =>
          /\ probe.ret \in 0 .. (width * height - 1)
          /\ probe.ret = (probe.row % height) * width + (probe.col % width)
    /\ translate_to_1D(-1, 0, width, height) = translate_to_1D(width - 1, 0, width, height)
    /\ translate_to_1D(width, 0, width, height) = translate_to_1D(0, 0, width, height)

\* A call with the column one whole width too far and a negative row has returned.
C12_Witness ==
    /\ probe.fn = "translate_to_1D" /\ probe.returned
    /\ width > 1 /\ height > 1
    /\ probe.col = 2 * width - 1 /\ probe.row = 0 - height
    /\ probe.ret = width - 1

\* count_live_neighbors(world, col, row, width, height) is called and returns.
CallCount ==
    /\ probe.fn = "count_live_neighbors" /\ ~probe.returned
    /\ probe' = [probe EXCEPT !.returned = TRUE,
                              !.ret = count_live_neighbors(world, probe.col, probe.row,
                                                           width, height)]
    /\ ProbeFrame

SpecCount == InitCount /\ [][CallCount]_vars

\* The grid g with the state of cell (x, y) inverted.
WithCentreFlipped(g, x, y) ==
    [g EXCEPT ![y * width + x] = 1 - @]

\* The count returned for (col, row) does not depend on the state of that cell.
CentreNotCounted ==
    probe.ret = count_live_neighbors(WithCentreFlipped(world, probe.col, probe.row),
                                     probe.col, probe.row, width, height)

\* C13 as claimed: for every grid size W > 0, H > 0 and every cell,
\* count_live_neighbors never counts the centre cell itself and returns a value
\* in [0, 8].
C13_NeverCountsCentre ==
    (probe.fn = "count_live_neighbors" /\ probe.returned) =>
        /\ probe.ret \in 0 .. 8
        /\ CentreNotCounted

\* C13 as amended: for every grid size W > 0, H > 0 and every cell,
\* count_live_neighbors returns a value in [0, 8]; on grids with W >= 2 and
\* H >= 2 it never counts the centre cell itself, while on a grid one column
\* wide or one row high the wraparound makes the cell its own neighbour and
\* the centre cell is counted.
C13_CentreCountedOnlyWhenWrapped ==
    (probe.fn = "count_live_neighbors" /\ probe.returned) =>
        /\ probe.ret \in 0 .. 8
        /\ (width >= 2 /\ height >= 2) => CentreNotCounted
        /\ (width = 1 \/ height = 1) => ~CentreNotCounted

\* The call on the live centre of a fully live 3x3 grid has returned 8.
C13_Witness ==
    /\ probe.fn = "count_live_neighbors" /\ probe.returned
    /\ width = 3 /\ height = 3 /\ probe.col = 1 /\ probe.row = 1
    /\ \A c \in Cells : world[c] = 1
    /\ probe.ret = 8

\* ------------------------------------------------------------------ initialize_world
\* main.c 118: world = initialize_world(config_filename, &width, &height).
\* fscanf stores the number of rows and of columns into main's height and width
\* as it reads them.  A write out of bounds either goes unnoticed or kills the
\* process.
InitializeWorld ==
    /\ mpc = "initialize_world"
    /\ LET r == initialize_world(config)
           h == IF config.readable /\ config.header >= 1 THEN config.rows ELSE height
           w == IF config.readable /\ config.header >= 2 THEN config.cols ELSE width
       IN  /\ height' = h /\ width' = w
           /\ IF r.null
              THEN /\ mpc' = "world_null"
                   /\ UNCHANGED <<world, init_world, world_copy, writers>>
              ELSE \E outcome \in (IF r.oob THEN {"unnoticed", "killed"} ELSE {"unnoticed"}) :
                     IF outcome = "killed"
                     THEN /\ mpc' = "crashed"
                          /\ UNCHANGED <<world, init_world, world_copy, writers>>
                     ELSE /\ mpc' = "run_threads"
                          /\ world' = r.world
                          /\ init_world' = r.world
                          /\ world_copy' = [c \in 0 .. (w * h - 1) |-> Uninit]
                          /\ writers' = [c \in 0 .. (w * h - 1) |-> {}]
    /\ UNCHANGED <<num_threads, num_turns, td, mi, pc, turn_number, copy_i, ux, uy,
                   bcount, bcycle, mycycle, rendered, nwaits, ncopies, config, fault,
                   probe>>

SpecLoad == InitLoad /\ [][InitializeWorld]_vars

\* initialize_world has returned a grid to main.
WorldLoaded == mpc = "run_threads" /\ config.readable /\ config.header = 3

\* C14: for every (col, row) pair of the file, also outside [0,W) x [0,H),
\* initialize_world marks alive exactly the cell the toroidal index function
\* gives for it, whose index lies in [0, W*H), without any error, and every
\* cell no pair names is dead.
C14_PairsMarkCellsInRange ==
    /\ mpc # "crashed"
    /\ WorldLoaded =>
          /\ \A i \in 1 .. Len(config.pairs) :
                LET index == translate_to_1D(config.pairs[i].col, config.pairs[i].row,
                                             width, height)
                IN  index \in Cells /\ world[index] = 1
          /\ \A c \in Cells :
                world[c] = 1 =>
                    \E i \in 1 .. Len(config.pairs) :
                        c = translate_to_1D(config.pairs[i].col, config.pairs[i].row,
                                            width, height)

\* ------------------------------------------------------------------ start-up
\* The files main can be given: unreadable; readable with only the first
\* header fields; or with a whole header and, for each of the pairs it
\* announces, a line that holds a pair inside the grid or cannot be read.
StartupConfigs ==
    {[readable |-> FALSE, header |-> 0, rows |-> 1, cols |-> 1, pairs |-> <<>>]}
    \cup
    [readable : {TRUE}, header : 0 .. 2, rows : 1 .. MaxLoadDim, cols : 1 .. MaxLoadDim,
     pairs : {<<>>}]
    \cup
    UNION { [readable : {TRUE}, header : {3}, rows : {h}, cols : {w},
             pairs : SeqsUpTo(PairLines(0 .. (w - 1), 0 .. (h - 1)))] :
            w \in 1 .. MaxLoadDim, h \in 1 .. MaxLoadDim }

InitStartup ==
    \E cfg \in StartupConfigs, n \in 1 .. MaxThreads, k \in 0 .. MaxTurns :
        InitBefore(cfg, n, k)

\* A main that goes on to run_threads with the NULL grid.
AbortOnNullMissing ==
    /\ mpc = "world_null"
    /\ mpc' = "run_threads"
    /\ UNCHANGED <<config, probe, fault, width, height, num_threads, num_turns, init_world,
                   world, world_copy, td, mi, pc, turn_number, copy_i, ux, uy, bcount,
                   bcycle, mycycle, rendered, nwaits, ncopies, writers>>

\* main.c 120-124: world == NULL: endwin, message, exit(1).
AbortOnNull ==
    /\ mpc = "world_null"
    /\ mpc' = "exit_failure"
    /\ UNCHANGED <<config, probe, fault, width, height, num_threads, num_turns, init_world,
                   world, world_copy, td, mi, pc, turn_number, copy_i, ux, uy, bcount,
                   bcycle, mycycle, rendered, nwaits, ncopies, writers>>

NextStartup == InitializeWorld \/ AbortOnNull \/ Next

SpecStartup == InitStartup /\ [][NextStartup]_vars

\* The file is missing or unreadable, or a header field or a pair is malformed.
ConfigMalformed ==
    \/ ~config.readable
    \/ config.header < 3
    \/ \E i \in 1 .. Len(config.pairs) : ~config.pairs[i].ok

\* No worker exists, nothing was simulated or rendered.
NothingRun ==
    /\ \A t \in Threads : pc[t] = "unborn" /\ turn_number[t] = 0 /\ nwaits[t] = 0
    /\ td = <<>>
    /\ rendered = <<>>
    /\ ncopies = 0

\* C15: when the file is missing or unreadable, or a dimension, the pair count
\* or any pair is malformed, initialize_world returns NULL and main's next
\* step is exit(1): no worker is ever created and no generation is simulated
\* or rendered.
C15_MalformedConfigAborts ==
    /\ [](ConfigMalformed =>
            /\ mpc \in {"initialize_world", "world_null", "exit_failure"}
            /\ world = <<>>
            /\ NothingRun)
    /\ [][(ConfigMalformed /\ mpc = "initialize_world") => mpc' = "world_null"]_vars
    /\ [][mpc = "world_null" => mpc' = "exit_failure"]_vars

\* A file whose second pair cannot be read (the first was stored) made main exit.
C15_Witness ==
    /\ mpc = "exit_failure"
    /\ config.readable /\ config.header = 3
    /\ Len(config.pairs) = 2 /\ config.pairs[1].ok /\ ~config.pairs[2].ok
    /\ NothingRun

\* ------------------------------------------------------------------ failing primitives
\* exit(EXIT_FAILURE) after perror: the process, all its threads included, is
\* over; f names the call that failed.
exit_failure(f) ==
    /\ fault' = f
    /\ mpc' = "exit_failure"
    /\ UNCHANGED <<config, probe, width, height, num_threads, num_turns, init_world, world,
                   world_copy, td, mi, pc, turn_number, copy_i, ux, uy, bcount, bcycle,
                   mycycle, nwaits, rendered, ncopies, writers>>

\* run_threads, lines 212-215: pthread_barrier_init returns non-zero.
BarrierInitFails == mpc = "run_threads" /\ exit_failure("pthread_barrier_init")

\* run_threads, lines 247-250: pthread_create returns non-zero.
CreateFails == mpc = "create" /\ exit_failure("pthread_create")

\* run_threads, lines 254-257: pthread_join returns non-zero (it does not wait
\* for the worker then).
JoinFails == mpc = "join" /\ exit_failure("pthread_join")

\* run_threads, lines 260-263: pthread_barrier_destroy returns non-zero.
BarrierDestroyFails == mpc = "cleanup" /\ exit_failure("pthread_barrier_destroy")

\* A worker that reports the failed wait and goes on as if it had returned.
BarrierWaitFailsIgnored(t) ==
    /\ pc[t] \in {"barA", "barB"}
    /\ fault' = "pthread_barrier_wait"
    /\ pc' = [pc EXCEPT ![t] = IF pc[t] = "barA" THEN after_first_barrier(t) ELSE "update"]
    /\ UNCHANGED <<config, probe, width, height, num_threads, num_turns, init_world, world,
                   world_copy, td, mpc, mi, turn_number, copy_i, ux, uy, bcount, bcycle,
                   mycycle, nwaits, rendered, ncopies, writers>>

\* thread_function, lines 158-162 and 173-177: pthread_barrier_wait returns a
\* value other than 0 and PTHREAD_BARRIER_SERIAL_THREAD; the worker has not
\* joined the episode.
BarrierWaitFails(t) ==
    /\ pc[t] \in {"barA", "barB"}
    /\ exit_failure("pthread_barrier_wait")

\* Nothing runs in a process that has exited.
NextFail ==
    \/ mpc # "exit_failure" /\ Next
    \/ mpc # "exit_failure" /\ \E t \in Threads : BarrierWaitFails(t)
    \/ BarrierInitFails
    \/ CreateFails
    \/ JoinFails
    \/ BarrierDestroyFails

SpecFail == FairInit /\ [][NextFail]_vars

C16_WitnessCreate == fault = "pthread_create" /\ mi >= 1 /\ pc[0] # "unborn"

\* pthread_join failed while a worker was running.
C16_WitnessJoin == fault = "pthread_join" /\ \E t \in Threads : pc[t] \notin {"done", "unborn"}

\* ------------------------------------------------------------------ the leader
\* Barrier A of the current turn has opened and barrier B has not: the one
\* barrier object has completed an odd number of episodes.
BetweenBarriers == bcycle = 1

\* The step is one iteration of the leader's copy loop (main.c 166-168).
LeaderCopyStep ==
    /\ pc[0] = "copy" /\ td[0].id = 0
    /\ world_copy' = [world_copy EXCEPT ![copy_i] = world[copy_i]]

\* C17: worker 0 and no other is the leader, in every generation: only it is
\* ever in the copy loop or at print_world; the snapshot changes only by its
\* copy loop, between barrier A and barrier B, which has run exactly once per
\* generation and left a full copy of the live grid; between the two barriers
\* every other worker only goes from the first wait to the second and the live
\* grid is not written.
C17_OneLeader ==
    /\ [](BandsAssigned => \A t \in Threads : (td[t].id = 0 <=> t = 0))
    /\ [](\A t \in Threads : pc[t] \in {"copy", "print"} => t = 0)
    /\ [](\A i \in 1 .. Len(rendered) : rendered[i].by \in {0, MainThread})
    /\ [](pc[0] \in {"copy", "print"} => BetweenBarriers)
    /\ [](pc[0] = "copy" => ncopies = turn_number[0])
    /\ []((pc[0] = "print" \/ (BetweenBarriers /\ pc[0] \in {"barB", "barB_blocked"})) =>
            /\ ncopies = turn_number[0] + 1
            /\ world_copy = world)
    /\ [](BetweenBarriers =>
            \A t \in Threads : t # 0 => pc[t] \in {"barA_blocked", "barB", "barB_blocked"})
    /\ [][world_copy' # world_copy => (BetweenBarriers /\ LeaderCopyStep)]_vars
    /\ [][(copy_i' # copy_i \/ ncopies' # ncopies) => (BetweenBarriers /\ LeaderCopyStep)]_vars
    /\ [][BetweenBarriers => world' = world]_vars

\* The leader has completed its second copy while two other workers, one
\* still inside the first wait, one at the second, touched nothing.
C17_Witness ==
    /\ num_threads = 3
    /\ pc[0] = "print" /\ turn_number[0] = 1 /\ ncopies = 2
    /\ pc[1] = "barA_blocked" /\ pc[2] = "barB_blocked"
    /\ world # init_world

\* ------------------------------------------------------------------ the computing phase
\* The step is a step of worker t inside update_world: its loop variables move
\* or it is recorded as the caller of update_cell on one more cell.
StepOfUpdateWorld(t) ==
    /\ pc[t] = "update"
    /\ \/ ux'[t] # ux[t]
       \/ uy'[t] # uy[t]
       \/ \E c \in Cells : t \in writers'[c] /\ t \notin writers[c]
       \/ pc'[t] # pc[t]

\* C18: a step of a worker inside update_world leaves the snapshot buffer
\* unchanged, leaves every live-grid cell outside the rows of that worker's
\* band unchanged, and the one cell it may write gets the rule's value
\* computed from the snapshot alone; the live grid changes by no other step.
C18_UpdateWorldFrame ==
    /\ [][\A t \in Threads :
            StepOfUpdateWorld(t) =>
                /\ world_copy' = world_copy
                /\ \A c \in Cells \ WriteSet(t) : world'[c] = world[c]
                /\ \A c \in WriteSet(t) :
                      world'[c] # world[c] =>
                          /\ c = uy[t] * width + ux[t]
                          /\ world'[c] = Rule(world_copy[c],
                                              MooreCount(world_copy, c % width, c \div width))]_vars
    /\ [][world' # world => \E t \in Threads : StepOfUpdateWorld(t)]_vars

\* Two workers are inside update_world of the second turn and both have
\* changed a cell of their own band.
C18_Witness ==
    \E t \in Threads, u \in Threads :
        /\ t # u
        /\ pc[t] = "update" /\ pc[u] = "update"
        /\ turn_number[t] = 1 /\ turn_number[u] = 1
        /\ \E c \in WriteSet(t) : world[c] # world_copy[c]
        /\ \E c \in WriteSet(u) : world[c] # world_copy[c]

\* ------------------------------------------------------------------ live grid and snapshot
\* Worker t has called update_cell on cell c in the generation the snapshot
\* was taken for (generation ncopies - 1).
Processed(t, c) ==
    \/ turn_number[t] = ncopies
    \/ pc[t] = "update" /\ c < uy[t] * width + ux[t]

\* Barrier B of the latest generation has opened.
ComputingPhase == bcycle = 0 /\ ncopies >= 1

\* C19: from the end of the leader's copy loop until barrier B opens the live
\* grid equals the snapshot cell for cell; after barrier B has opened every
\* cell its owner has not yet processed still equals its snapshot value and
\* every processed cell holds the rule's value, also where update_cell stored
\* nothing; and each frame the leader renders, taken from the live grid, is the
\* snapshot.
C19_LiveEqualsSnapshot ==
    /\ []((BetweenBarriers /\ pc[0] \in {"print", "barB", "barB_blocked"}) =>
                world = world_copy)
    /\ [](ComputingPhase =>
            \A t \in Threads : \A c \in WriteSet(t) :
                IF Processed(t, c)
                THEN world[c] = LifeStep(world_copy)[c]
                ELSE world[c] = world_copy[c])
    /\ [][(pc[0] = "print" /\ rendered' # rendered) =>
              rendered'[Len(rendered')].grid = world_copy]_vars

\* In the computing phase of the second turn a worker has processed a cell
\* that changed and a cell where update_cell stored nothing, and a cell that
\* is going to change is still waiting with its snapshot value.
C19_Witness ==
    /\ ComputingPhase /\ ncopies = 2
    /\ world_copy # init_world
    /\ \E t \in Threads :
          /\ pc[t] = "update"
          /\ \E c \in WriteSet(t) : Processed(t, c) /\ world[c] # world_copy[c]
          /\ \E c \in WriteSet(t) : Processed(t, c) /\ world[c] = world_copy[c]
    /\ \E t \in Threads :
          \E c \in WriteSet(t) : ~Processed(t, c) /\ LifeStep(world_copy)[c] # world[c]

\* ------------------------------------------------------------------ one barrier, two rendezvous
\* Worker t is inside a pthread_barrier_wait whose episode is not over.
Waiting(t) == pc[t] \in {"barA_blocked", "barB_blocked"} /\ ~barrier_released(t)

\* C20: the one barrier serves both rendezvous without mixing them: the workers
\* waiting in an episode are all in their k-th wait, for the same k, and all at
\* the same of the two calls; when an episode ends every worker has made the
\* same number of waits; the turn numbers of two workers differ by at most 1,
\* and a worker that is ahead stays at the top of its loop or inside an unopened
\* first wait while the other is still in the earlier turn.
C20_EpisodesDoNotMix ==
    /\ [](\A t \in Threads, u \in Threads :
            /\ turn_number[t] - turn_number[u] <= 1
            /\ turn_number[t] > turn_number[u] =>
                  /\ pc[t] \in {"loop", "barA", "barA_blocked", "done"}
                  /\ pc[t] = "barA_blocked" => Waiting(t)
                  /\ pc[u] \in {"barB_blocked", "update"}
            /\ (Waiting(t) /\ Waiting(u)) => (nwaits[t] = nwaits[u] /\ pc[t] = pc[u]))
    /\ [](\A t \in Threads :
            /\ pc[t] = "barA_blocked" => nwaits[t] = 2 * turn_number[t] + 1
            /\ pc[t] = "barB_blocked" => nwaits[t] = 2 * turn_number[t] + 2)
    /\ [](BandsAssigned => bcount = Cardinality({t \in Threads : Waiting(t)}))
    /\ [][bcycle' # bcycle =>
            \A t \in Threads, u \in Threads : nwaits'[t] = nwaits'[u]]_vars

\* A worker has finished its first turn and waits at the first barrier of the
\* second, together with another, while a third is still computing the first.
C20_Witness ==
    /\ num_threads = 3 /\ num_turns = 2
    /\ \E t \in Threads, u \in Threads, v \in Threads :
          /\ t # u
          /\ Waiting(t) /\ Waiting(u) /\ pc[t] = "barA_blocked"
          /\ turn_number[t] = 1 /\ turn_number[u] = 1
          /\ pc[v] = "update" /\ turn_number[v] = 0

====
